---- MODULE Spec2Model ----
(***************************************************************************)
(* color-ui: the FocusLock utility (utils/FocusLock.tsx) and the Modal     *)
(* component (components/Modal/Modal.tsx) as a state machine over a small  *)
(* document.                                                               *)
(*                                                                         *)
(* Elements are integers, c * 10 + k: c = 0 is the host page (0 the body,  *)
(* 1 and 2 two focusable elements outside every container), c = i >= 1 is  *)
(* the container of instance i and k its slot.  Document order inside a    *)
(* container is slot order.                                                *)
(***************************************************************************)
EXTENDS Integers, Sequences, FiniteSets, TLC

\* Slots of focusable elements a container can hold.
MaxItems == 3
\* Focusable elements in the content of a Modal.
MaxModalItems == 2

Inst == {1, 2}

El(c, k) == c * 10 + k
Slot(e) == e % 10
Body == El(0, 0)
Trigger == El(0, 1)
Final == El(0, 2)
Outside == {Trigger, Final}
Null == 0 - 1
Undefined == 0 - 2

Pool(i) == {El(i, k) : k \in 1..MaxItems}

Keys == {"Tab", "Escape"}

\* Modal.tsx: the delay Modal hands to useMountTransition, in milliseconds.
TRANSITION_DURATION == 200

\* Time advances in steps of half that delay.
TickLength == TRANSITION_DURATION \div 2

\* Values of the transitionDuration prop (Undefined: not given).
Durations == {Undefined, 0, TickLength, TRANSITION_DURATION, 3 * TickLength}

VARIABLES
    focus,            \* document.activeElement (Body: no element holds focus)
    rootNode,         \* rootNode[i]: the FocusLock root of i is attached
    children,         \* children[i]: focusable elements now under the root of i
    focusableItems,   \* focusableItems[i]: [set, list], the ref's NodeList
    returnFocusNode,  \* returnFocusNode[i]: element or Null
    props,            \* props[i]: the FocusLock props of the last render
    listeners,        \* window keydown listeners of FocusLock, in order
    observers,        \* instances whose MutationObserver is connected
    focusBefore,      \* focusBefore[i]: activeElement just before i was mounted
    isOpen,           \* isOpen[i]: the Modal prop of the last render
    isContentVisible, \* isContentVisible[i]: useMountTransition's state
    timer,            \* timer[i]: the transition timeout of i is pending
    modalProps,       \* modalProps[i]: [lockScroll, target] of Modal i
    overlays,         \* the attached Modal roots, in order of attachment
    noScroll,         \* document.body carries the Modal__noScroll class
    transitionDuration, \* transitionDuration[i]: the Modal prop of that name
    elapsed,          \* elapsed[i]: time since the transition timeout was set
    ev                \* what the last step did

lockVars == <<rootNode, children, focusableItems, returnFocusNode, props,
              listeners, observers, focusBefore>>
modalVars == <<isOpen, isContentVisible, timer, modalProps, overlays, noScroll,
               transitionDuration, elapsed>>
vars == <<focus, lockVars, modalVars, ev>>

\* In a FocusLock used on its own the first slot is a direct child of the
\* root and the others are nested below a wrapper element; inside a Modal
\* every slot is below the Modal's own elements.
Direct(i, e) == ~isContentVisible[i] /\ Slot(e) = 1

-----------------------------------------------------------------------------
\* Helpers

RECURSIVE SortedSeq(_)
SortedSeq(S) ==
    IF S = {} THEN <<>>
    ELSE LET m == CHOOSE x \in S : \A y \in S : x <= y
         IN <<m>> \o SortedSeq(S \ {m})

Range(s) == {s[n] : n \in 1..Len(s)}

Remove(s, x) == SelectSeq(s, LAMBDA y : y # x)

NoItems == [set |-> FALSE, list |-> <<>>]

DefaultProps ==
    [isLocked |-> TRUE, autoFocusOnMount |-> FALSE,
     returnFocusOnClose |-> FALSE, initialFocusRef |-> Undefined,
     finalFocusRef |-> Undefined]

\* e is in the document with the given container contents.
AttachedIn(e, root, kids) ==
    \/ e \in Outside
    \/ \E i \in Inst : root[i] /\ e \in kids[i]

Attached(e) == AttachedIn(e, rootNode, children)

\* HTMLElement.focus(): moves focus to an element that is in the document;
\* no effect on a detached node, on the body, or through ?. on null/undefined.
FocusOn(e, active, root, kids) ==
    IF e # Body /\ AttachedIn(e, root, kids) THEN e ELSE active

\* ref?.current of a RefObject prop: Undefined when the prop is not given,
\* null while the element it is bound to is not rendered.
RefCurrent(ref, root, kids) ==
    IF ref = Undefined THEN Undefined
    ELSE IF AttachedIn(ref, root, kids) THEN ref ELSE Null

\* rootNode.current.querySelectorAll(FOCUSABLE_ELEMENTS): the focusable
\* descendants at any depth, in document order.
QueryFocusable(kids) == [set |-> TRUE, list |-> SortedSeq(kids)]

-----------------------------------------------------------------------------
\* FocusLock: the three effects

\* updateFocusableItems: the query result replaces the ref's value.
updateFocusableItems(i, kids) == QueryFocusable(kids[i])

\* The effect body of "Handle autofocus and return focus".  Returns the new
\* returnFocusNode and the new activeElement.
AutoFocusEffect(p, items, rfn, active, root, kids) ==
    IF p.autoFocusOnMount
    THEN LET fin == RefCurrent(p.finalFocusRef, root, kids)
             node == IF fin \in {Undefined, Null} THEN active ELSE fin
             target ==
                 IF p.initialFocusRef # Undefined
                 THEN RefCurrent(p.initialFocusRef, root, kids)
                 ELSE IF items.set /\ Len(items.list) > 0
                      THEN items.list[1]
                      ELSE Undefined
         IN [returnFocusNode |-> node,
             active |-> IF target \in {Undefined, Null} THEN active
                        ELSE FocusOn(target, active, root, kids)]
    ELSE [returnFocusNode |-> rfn, active |-> active]

\* The cleanup of the same effect.
AutoFocusCleanup(p, rfn, active, root, kids) ==
    IF p.returnFocusOnClose /\ rfn # Null
    THEN FocusOn(rfn, active, root, kids)
    ELSE active

\* Variant of MountEffects: the autofocus effect runs before the focusable
\* items are queried.
MountEffects_autoFocusFirst(i, p, active, root, kids) ==
    LET af == AutoFocusEffect(p, NoItems, Null, active, root, kids)
    IN [items |-> updateFocusableItems(i, kids),
        returnFocusNode |-> af.returnFocusNode, active |-> af.active]

\* The effects of the first render, in declaration order: the focusable
\* items are queried before the autofocus effect reads them.
MountEffects(i, p, active, root, kids) ==
    LET items == updateFocusableItems(i, kids)
        af == AutoFocusEffect(p, items, Null, active, root, kids)
    IN [items |-> items, returnFocusNode |-> af.returnFocusNode,
        active |-> af.active]

\* A call of the listener that does nothing.
NoCall == [preventDefault |-> FALSE, focus |-> Undefined, throws |-> FALSE]

\* event.preventDefault(), then item.focus(): a TypeError when item is
\* undefined.
WrapTo(item) ==
    [preventDefault |-> TRUE, focus |-> item, throws |-> item = Undefined]

\* Variants of handleKeyPress with one slip each.
FirstOf(items) == IF Len(items.list) > 0 THEN items.list[1] ELSE Undefined
LastOf(items) ==
    IF Len(items.list) > 0 THEN items.list[Len(items.list)] ELSE Undefined

\* the shiftKey tests are exchanged
handleKeyPress_shiftSwapped(items, isLocked, key, shiftKey, active) ==
    IF ~items.set \/ ~(isLocked /\ key = "Tab") THEN NoCall
    ELSE IF Len(items.list) = 1 THEN [NoCall EXCEPT !.preventDefault = TRUE]
    ELSE IF shiftKey /\ active = LastOf(items) THEN WrapTo(FirstOf(items))
    ELSE IF ~shiftKey /\ active = FirstOf(items) THEN WrapTo(LastOf(items))
    ELSE NoCall

\* the forward wrap is missing
handleKeyPress_noForwardWrap(items, isLocked, key, shiftKey, active) ==
    IF ~items.set \/ ~(isLocked /\ key = "Tab") THEN NoCall
    ELSE IF Len(items.list) = 1 THEN [NoCall EXCEPT !.preventDefault = TRUE]
    ELSE IF shiftKey /\ active = FirstOf(items) THEN WrapTo(LastOf(items))
    ELSE NoCall

\* the single-item case is missing
handleKeyPress_noSingle(items, isLocked, key, shiftKey, active) ==
    IF ~items.set \/ ~(isLocked /\ key = "Tab") THEN NoCall
    ELSE IF ~shiftKey /\ active = LastOf(items) THEN WrapTo(FirstOf(items))
    ELSE IF shiftKey /\ active = FirstOf(items) THEN WrapTo(LastOf(items))
    ELSE NoCall

\* length <= 1 instead of length === 1
handleKeyPress_atMostOne(items, isLocked, key, shiftKey, active) ==
    IF ~items.set \/ ~(isLocked /\ key = "Tab") THEN NoCall
    ELSE IF Len(items.list) <= 1 THEN [NoCall EXCEPT !.preventDefault = TRUE]
    ELSE IF ~shiftKey /\ active = LastOf(items) THEN WrapTo(FirstOf(items))
    ELSE IF shiftKey /\ active = FirstOf(items) THEN WrapTo(LastOf(items))
    ELSE NoCall

\* isLocked is not read
handleKeyPress_ignoresLock(items, isLocked, key, shiftKey, active) ==
    IF ~items.set \/ key # "Tab" THEN NoCall
    ELSE IF Len(items.list) = 1 THEN [NoCall EXCEPT !.preventDefault = TRUE]
    ELSE IF ~shiftKey /\ active = LastOf(items) THEN WrapTo(FirstOf(items))
    ELSE IF shiftKey /\ active = FirstOf(items) THEN WrapTo(LastOf(items))
    ELSE NoCall

\* handleKeyPress: what one instance's keydown listener does with an event,
\* given document.activeElement: whether it calls event.preventDefault()
\* the element it calls focus() on (Undefined: none), and whether it throws.
handleKeyPress(items, isLocked, key, shiftKey, active) ==
    IF ~items.set THEN NoCall
    ELSE LET length == Len(items.list)
             firstItem == IF length > 0 THEN items.list[1] ELSE Undefined
             lastItem == IF length > 0 THEN items.list[length] ELSE Undefined
         IN IF isLocked /\ key = "Tab"
            THEN IF length = 1
                 THEN [NoCall EXCEPT !.preventDefault = TRUE]
                 ELSE IF ~shiftKey /\ active = lastItem
                 THEN WrapTo(firstItem)
                 ELSE IF shiftKey /\ active = firstItem
                 THEN WrapTo(lastItem)
                 ELSE NoCall
            ELSE NoCall

NoRes == [i \in Inst |-> NoCall]

\* The window dispatches the keydown to the listeners in registration order;
\* each sees the activeElement the earlier ones left.
RECURSIVE RunListeners(_, _, _, _)
RunListeners(ls, key, shiftKey, st) ==
    IF ls = <<>> THEN st
    ELSE LET i == Head(ls)
             r == handleKeyPress(focusableItems[i], props[i].isLocked, key,
                                 shiftKey, st.active)
             next ==
                 [active |-> IF r.focus = Undefined THEN st.active
                             ELSE FocusOn(r.focus, st.active, rootNode, children),
                  defaultPrevented |-> st.defaultPrevented \/ r.preventDefault,
                  res |-> [st.res EXCEPT ![i] = r]]
         IN RunListeners(Tail(ls), key, shiftKey, next)

-----------------------------------------------------------------------------------------------------------------------------------------------------
\* Modal: the hooks and helpers it calls

\* getOverlayElements("Modal"): the attached Modal roots in document order.
\* A portal appends to its target; the custom target stands in the page
\* before the portals appended to document.body.
getOverlayElements ==
    SelectSeq(overlays, LAMBDA i : modalProps[i].target = "custom")
    \o SelectSeq(overlays, LAMBDA i : modalProps[i].target = "body")

\* The props <FocusLock> gets from Modal: isLocked, autoFocusOnMount and
\* returnFocusOnClose; initialFocusRef and finalFocusRef are not among them.
ModalLockProps(mp) ==
    [isLocked |-> mp.trapFocus, autoFocusOnMount |-> mp.autoFocus,
     returnFocusOnClose |-> mp.returnFocus, initialFocusRef |-> Undefined,
     finalFocusRef |-> Undefined]

\* Variant of ScrollLockEffect: the marker is removed whenever this modal is
\* not visible.
ScrollLockEffect_removeOnHide(lockScroll, visible, count, marker) ==
    IF ~lockScroll THEN marker
    ELSE IF visible /\ count = 1 THEN TRUE
    ELSE IF ~visible THEN FALSE
    ELSE marker

\* The effect "Disable browser scrolling when modal is opened", run after a
\* commit that changed isContentVisible: the new state of the body marker.
ScrollLockEffect(lockScroll, visible, count, marker) ==
    IF ~lockScroll THEN marker
    ELSE IF visible /\ count = 1 THEN TRUE
    ELSE IF count = 0 THEN FALSE
    ELSE marker

\* Variant of onEscape: every rendered instance closes.
onEscape_anyRendered(i, closeOnEsc, modals) ==
    closeOnEsc /\ isContentVisible[i]

\* onEscape: whether instance i calls onClose, given the overlay list.
\* modalRef.current is the root of i while i is rendered, else null.
onEscape(i, closeOnEsc, modals) ==
    /\ closeOnEsc
    /\ Len(modals) > 0
    /\ isContentVisible[i]
    /\ modals[Len(modals)] = i

\* Variant of BackdropOnClick: onClose is called before onBackdropClick.
BackdropOnClick_closeFirst(onBackdropClick, closeOnClickOutside) ==
    (IF closeOnClickOutside THEN <<"onClose">> ELSE <<>>)
    \o (IF onBackdropClick THEN <<"onBackdropClick">> ELSE <<>>)

\* The onClick Modal gives its backdrop: the callbacks it calls, in order.
\* onBackdropClick tells whether the prop of that name was given.
BackdropOnClick(onBackdropClick, closeOnClickOutside) ==
    (IF onBackdropClick THEN <<"onBackdropClick">> ELSE <<>>)
    \o (IF closeOnClickOutside THEN <<"onClose">> ELSE <<>>)

\* The onClick of the close button: closeButtonProps is spread after it, so
\* an onClick given there replaces the one that calls onClose.
CloseButtonOnClick(onClickGiven) ==
    IF onClickGiven THEN <<>> ELSE <<"onClose">>

-----------------------------------------------------------------------------
\* The host document

RECURSIVE ContainerItems(_)
ContainerItems(is) ==
    IF is = <<>> THEN <<>>
    ELSE (IF rootNode[Head(is)] THEN SortedSeq(children[Head(is)]) ELSE <<>>)
         \o ContainerItems(Tail(is))

\* The tabbable elements in document order: the trigger, the FocusLocks
\* rendered in place, the element after them, the overlays.
TabOrder ==
    <<Trigger>>
    \o ContainerItems(SortedSeq({i \in Inst : ~isContentVisible[i]}))
    \o <<Final>>
    \o ContainerItems(getOverlayElements)

IndexOf(s, x) == CHOOSE n \in 1..Len(s) : s[n] = x

\* The browser's default action of Tab: focus moves to the adjacent tabbable
\* element in document order; past either end it leaves the document.
TabDefault(active, shiftKey) ==
    LET order == TabOrder
        n == Len(order)
    IN IF active \notin Range(order)
       THEN (IF shiftKey THEN order[n] ELSE order[1])
       ELSE LET k == IndexOf(order, active)
            IN IF shiftKey
               THEN (IF k = 1 THEN Body ELSE order[k - 1])
               ELSE (IF k = n THEN Body ELSE order[k + 1])

\* The lockScroll and target props of the two Modals; the first renders into
\* document.body (the other assignment of targets is this one with the
\* instances renamed).
ModalConfigs ==
    {c \in [Inst -> [lockScroll : BOOLEAN, target : {"body", "custom"}]] :
        c[1].target = "body"}

AllEsc == [i \in Inst |-> TRUE]
NoRefs == [initialFocusRef |-> Undefined, finalFocusRef |-> Undefined]

\* The props of a Modal render that a click reads.
NoClick ==
    [showBackdrop |-> TRUE, onBackdropClick |-> FALSE,
     closeOnClickOutside |-> TRUE, showCloseButton |-> TRUE,
     onClickGiven |-> FALSE]

\* The record of a step: the operation, its instance and FocusLock props
\* (mount, unmount, open, detach), the Modal's ref props of that render
\* (open, detach), the key event, its closeOnEsc props and its outcome
\* (keydown), the instances whose onClose was called, the activeElement
\* before the step (mount, open, keydown) or before the instance was mounted
\* (unmount, detach), the Modal props a click read and the callbacks it
\* called, in order (click).
Ev(op, i, p, before, refs) ==
    [op |-> op, inst |-> i, props |-> p, refs |-> refs, key |-> "",
     shiftKey |-> FALSE, closeOnEsc |-> AllEsc, before |-> before,
     defaultPrevented |-> FALSE, res |-> NoRes, calls |-> <<>>,
     click |-> NoClick, log |-> <<>>]

KeyEv(key, shiftKey, closeOnEsc, before, st, calls) ==
    [op |-> "key", inst |-> 0, props |-> DefaultProps, refs |-> NoRefs,
     key |-> key, shiftKey |-> shiftKey, closeOnEsc |-> closeOnEsc,
     before |-> before, defaultPrevented |-> st.defaultPrevented,
     res |-> st.res, calls |-> calls, click |-> NoClick,
     log |-> [n \in 1..Len(calls) |-> "onClose"]]

-----------------------------------------------------------------------------
\* Actions

\* The page with no FocusLock rendered and no Modal in use.
InitLock ==
    /\ focus \in {Body, Trigger}
    /\ rootNode = [i \in Inst |-> FALSE]
    /\ children = [i \in Inst |-> {}]
    /\ focusableItems = [i \in Inst |-> NoItems]
    /\ returnFocusNode = [i \in Inst |-> Null]
    /\ props = [i \in Inst |-> DefaultProps]
    /\ listeners = <<>>
    /\ observers = {}
    /\ focusBefore = [i \in Inst |-> Body]
    /\ isOpen = [i \in Inst |-> FALSE]
    /\ isContentVisible = [i \in Inst |-> FALSE]
    /\ timer = [i \in Inst |-> FALSE]
    /\ modalProps = [i \in Inst |-> [lockScroll |-> TRUE, target |-> "body"]]
    /\ overlays = <<>>
    /\ noScroll = FALSE
    /\ transitionDuration = [i \in Inst |-> Undefined]
    /\ elapsed = [i \in Inst |-> 0]
    /\ ev = Ev("init", 0, DefaultProps, Body, NoRefs)

\* The page with two closed Modals.
InitModal ==
    /\ focus = Trigger
    /\ rootNode = [i \in Inst |-> FALSE]
    /\ children = [i \in Inst |-> {}]
    /\ focusableItems = [i \in Inst |-> NoItems]
    /\ returnFocusNode = [i \in Inst |-> Null]
    /\ props = [i \in Inst |-> DefaultProps]
    /\ listeners = <<>>
    /\ observers = {}
    /\ focusBefore = [i \in Inst |-> Body]
    /\ isOpen = [i \in Inst |-> FALSE]
    /\ isContentVisible = [i \in Inst |-> FALSE]
    /\ timer = [i \in Inst |-> FALSE]
    /\ modalProps \in ModalConfigs
    /\ overlays = <<>>
    /\ noScroll = FALSE
    /\ transitionDuration = [i \in Inst |-> Undefined]
    /\ elapsed = [i \in Inst |-> 0]
    /\ ev = Ev("init", 0, DefaultProps, Body, NoRefs)

\* The content a Modal is opened around: its first n slots.
ModalKids(i) == {{El(i, k) : k \in 1..n} : n \in 0..MaxModalItems}

LockProps(i) ==
    [isLocked : BOOLEAN, autoFocusOnMount : BOOLEAN,
     returnFocusOnClose : BOOLEAN,
     initialFocusRef : {Undefined, El(i, 2)},
     finalFocusRef : {Undefined, Final}]

\* First render of a FocusLock with props p around the children kids: its
\* subtree enters the document, then the three effects run.
LockMounted(i, p, kids) ==
    /\ LET root == [rootNode EXCEPT ![i] = TRUE]
           dom == [children EXCEPT ![i] = kids]
           eff == MountEffects(i, p, focus, root, dom)
       IN /\ rootNode' = root
          /\ children' = dom
          /\ focusableItems' = [focusableItems EXCEPT ![i] = eff.items]
          /\ returnFocusNode' =
                 [returnFocusNode EXCEPT ![i] = eff.returnFocusNode]
          /\ focus' = eff.active
    /\ props' = [props EXCEPT ![i] = p]
    /\ listeners' = Append(listeners, i)
    /\ observers' = observers \cup {i}
    /\ focusBefore' = [focusBefore EXCEPT ![i] = focus]

\* Variant of LockUnmounted: the keydown effect has no cleanup, so the
\* listener stays on the window with the list and isLocked it closed over.
LockUnmounted_keepsListener(i) ==
    /\ LET root == [rootNode EXCEPT ![i] = FALSE]
           dom == [children EXCEPT ![i] = {}]
           active == IF focus \in children[i] THEN Body ELSE focus
       IN /\ rootNode' = root
          /\ children' = dom
          /\ focus' = AutoFocusCleanup(props[i], returnFocusNode[i], active,
                                        root, dom)
    /\ returnFocusNode' = [returnFocusNode EXCEPT ![i] = Null]
    /\ observers' = observers \ {i}
    /\ focusBefore' = [focusBefore EXCEPT ![i] = Body]
    /\ UNCHANGED <<focusableItems, props, listeners>>

\* The FocusLock is removed: its subtree leaves the document (focus inside
\* it falls to the body), then the cleanups run.
LockUnmounted(i) ==
    /\ LET root == [rootNode EXCEPT ![i] = FALSE]
           dom == [children EXCEPT ![i] = {}]
           active == IF focus \in children[i] THEN Body ELSE focus
       IN /\ rootNode' = root
          /\ children' = dom
          /\ focus' = AutoFocusCleanup(props[i], returnFocusNode[i], active,
                                        root, dom)
    /\ focusableItems' = [focusableItems EXCEPT ![i] = NoItems]
    /\ returnFocusNode' = [returnFocusNode EXCEPT ![i] = Null]
    /\ props' = [props EXCEPT ![i] = DefaultProps]
    /\ listeners' = Remove(listeners, i)
    /\ observers' = observers \ {i}
    /\ focusBefore' = [focusBefore EXCEPT ![i] = Body]

\* A FocusLock used on its own is rendered.
Mount(i, p, kids) ==
    /\ ~rootNode[i]
    /\ LockMounted(i, p, kids)
    /\ ev' = Ev("mount", i, p, focus, NoRefs)
    /\ UNCHANGED modalVars

\* A FocusLock used on its own is removed.
Unmount(i) ==
    /\ rootNode[i]
    /\ ~isContentVisible[i]
    /\ LockUnmounted(i)
    /\ ev' = Ev("unmount", i, props[i], focusBefore[i], NoRefs)
    /\ UNCHANGED modalVars

\* The props the autofocus / return-focus effect depends on.
AutoFocusDeps(p) ==
    <<p.autoFocusOnMount, p.finalFocusRef, p.initialFocusRef,
      p.returnFocusOnClose>>

\* A FocusLock used on its own is rendered again with other props p.  The
\* effects whose dependencies changed are cleaned up with the props of the
\* render before and run again with p: the autofocus / return-focus effect,
\* and the keydown effect, whose listener is registered anew.
Rerender(i, p) ==
    /\ rootNode[i]
    /\ ~isContentVisible[i]
    /\ p # props[i]
    /\ LET changed == AutoFocusDeps(p) # AutoFocusDeps(props[i])
           active == IF changed
                     THEN AutoFocusCleanup(props[i], returnFocusNode[i], focus,
                                           rootNode, children)
                     ELSE focus
           af == IF changed
                 THEN AutoFocusEffect(p, focusableItems[i], returnFocusNode[i],
                                      active, rootNode, children)
                 ELSE [returnFocusNode |-> returnFocusNode[i], active |-> focus]
       IN /\ focus' = af.active
          /\ returnFocusNode' =
                 [returnFocusNode EXCEPT ![i] = af.returnFocusNode]
    /\ props' = [props EXCEPT ![i] = p]
    /\ listeners' = IF p.isLocked # props[i].isLocked
                     THEN Append(Remove(listeners, i), i)
                     ELSE listeners
    /\ UNCHANGED <<rootNode, children, focusableItems, observers, focusBefore>>
    /\ UNCHANGED modalVars
    /\ ev' = Ev("render", i, p, focus, NoRefs)

\* A keydown on the window: the FocusLock listeners, the Escape shortcut of
\* every Modal (closeOnEsc[i] is the prop of i's last render; onClose is the
\* caller's, which sets isOpen to false), then the browser's default action.
KeyDown(key, shiftKey, closeOnEsc) ==
    /\ LET st == RunListeners(listeners, key, shiftKey,
                              [active |-> focus, defaultPrevented |-> FALSE,
                               res |-> NoRes])
           closing == {i \in Inst : key = "Escape"
                          /\ onEscape(i, closeOnEsc[i], getOverlayElements)}
       IN /\ focus' = IF key = "Tab" /\ ~st.defaultPrevented
                      THEN TabDefault(st.active, shiftKey)
                      ELSE st.active
          /\ isOpen' = [i \in Inst |-> isOpen[i] /\ i \notin closing]
          /\ timer' = [i \in Inst |-> timer[i] \/ i \in closing]
          /\ elapsed' = [i \in Inst |->
                            IF i \in closing /\ isOpen[i] THEN 0 ELSE elapsed[i]]
          /\ ev' = KeyEv(key, shiftKey, closeOnEsc, focus, st,
                         SortedSeq(closing))
    /\ UNCHANGED <<lockVars, isContentVisible, modalProps, overlays, noScroll,
                   transitionDuration>>

\* The application adds or removes a focusable element in the subtree of
\* container i.  The MutationObserver (childList only) calls back for a
\* direct child of the root and not for a nested element.
Mutate(i, e) ==
    /\ rootNode[i]
    /\ e \in Pool(i)
    /\ LET kids == IF e \in children[i] THEN children[i] \ {e}
                   ELSE children[i] \cup {e}
           dom == [children EXCEPT ![i] = kids]
       IN /\ children' = dom
          /\ focusableItems' =
                 IF i \in observers /\ Direct(i, e)
                 THEN [focusableItems EXCEPT ![i] = updateFocusableItems(i, dom)]
                 ELSE focusableItems
    /\ focus' = IF focus = e THEN Body ELSE focus
    /\ UNCHANGED <<rootNode, returnFocusNode, props, listeners, observers,
                   focusBefore>>
    /\ UNCHANGED modalVars
    /\ ev' = Ev("mutate", i, DefaultProps, Body, NoRefs)

\* The user clicks an element of the document, or beside them all.
UserFocus(e) ==
    /\ e = Body \/ Attached(e)
    /\ e # focus
    /\ focus' = e
    /\ UNCHANGED <<lockVars, modalVars>>
    /\ ev' = Ev("click", 0, DefaultProps, Body, NoRefs)

\* The focus props a Modal is opened with (trapFocus and returnFocus at
\* their defaults).
ModalFocusProps(i) ==
    [trapFocus : {TRUE}, autoFocus : BOOLEAN, returnFocus : {TRUE},
     initialFocusRef : {Undefined, El(i, 2)}]

\* The parent renders Modal i with isOpen = true and the props mp while its
\* content is not rendered: useMountTransition shows the content at once,
\* the portal attaches <FocusLock><div class Modal> around kids, the
\* FocusLock effects run and then the Modal's scroll-lock effect.
Open(i, mp, kids) ==
    /\ ~isOpen[i]
    /\ ~isContentVisible[i]
    /\ ~rootNode[i]
    /\ isOpen' = [isOpen EXCEPT ![i] = TRUE]
    /\ isContentVisible' = [isContentVisible EXCEPT ![i] = TRUE]
    /\ timer' = [timer EXCEPT ![i] = FALSE]
    /\ overlays' = Append(overlays, i)
    /\ LockMounted(i, ModalLockProps(mp), kids)
    /\ noScroll' = ScrollLockEffect(modalProps[i].lockScroll, TRUE,
                                    Len(overlays) + 1, noScroll)
    /\ UNCHANGED <<modalProps, transitionDuration, elapsed>>
    /\ ev' = Ev("open", i, ModalLockProps(mp), focus,
                [initialFocusRef |-> mp.initialFocusRef,
                 finalFocusRef |-> Undefined])

\* isOpen becomes true again while the content is still rendered: the
\* pending removal is cancelled.
Reopen(i) ==
    /\ ~isOpen[i]
    /\ isContentVisible[i]
    /\ isOpen' = [isOpen EXCEPT ![i] = TRUE]
    /\ timer' = [timer EXCEPT ![i] = FALSE]
    /\ UNCHANGED <<focus, lockVars, isContentVisible, modalProps, overlays,
                   noScroll, transitionDuration, elapsed>>
    /\ ev' = Ev("reopen", i, DefaultProps, Body, NoRefs)

\* The parent renders Modal i with isOpen = false: the content stays for the
\* transition.
Close(i) ==
    /\ isOpen[i]
    /\ isOpen' = [isOpen EXCEPT ![i] = FALSE]
    /\ timer' = [timer EXCEPT ![i] = TRUE]
    /\ elapsed' = [elapsed EXCEPT ![i] = 0]
    /\ UNCHANGED <<focus, lockVars, isContentVisible, modalProps, overlays,
                   noScroll, transitionDuration>>
    /\ ev' = Ev("close", i, DefaultProps, Body, NoRefs)

\* The transition timer of i fires: the content is removed from the portal
\* target, the FocusLock cleanups run and then the scroll-lock effect.
\* finalFocusRef is the Modal prop of that name in the last render.
TimerFire(i, finalFocusRef) ==
    /\ timer[i]
    /\ ~isOpen[i]
    /\ isContentVisible[i]
    /\ timer' = [timer EXCEPT ![i] = FALSE]
    /\ isContentVisible' = [isContentVisible EXCEPT ![i] = FALSE]
    /\ overlays' = Remove(overlays, i)
    /\ LockUnmounted(i)
    /\ noScroll' = ScrollLockEffect(modalProps[i].lockScroll, FALSE,
                                    Len(overlays) - 1, noScroll)
    /\ UNCHANGED <<isOpen, modalProps, transitionDuration, elapsed>>
    /\ ev' = Ev("detach", i, props[i], focusBefore[i],
                [initialFocusRef |-> Undefined,
                 finalFocusRef |-> finalFocusRef])

\* A click handler of Modal i has called the callbacks of log; onClose is
\* the caller's, which sets isOpen to false.
Clicked(op, i, click, log) ==
    /\ LET closes == "onClose" \in Range(log)
       IN /\ isOpen' = [isOpen EXCEPT ![i] = isOpen[i] /\ ~closes]
          /\ timer' = [timer EXCEPT ![i] = timer[i] \/ closes]
          /\ elapsed' = [elapsed EXCEPT
                            ![i] = IF closes /\ isOpen[i] THEN 0 ELSE elapsed[i]]
          /\ ev' = [Ev(op, i, DefaultProps, Body, NoRefs) EXCEPT
                       !.calls = IF closes THEN <<i>> ELSE <<>>,
                       !.click = click, !.log = log]
    /\ UNCHANGED <<focus, lockVars, isContentVisible, modalProps, overlays,
                   noScroll, transitionDuration>>

\* The user clicks the backdrop of Modal i, which is rendered while the
\* content is and showBackdrop is on.
BackdropClick(i, showBackdrop, onBackdropClick, closeOnClickOutside) ==
    /\ isContentVisible[i]
    /\ showBackdrop
    /\ Clicked("backdrop", i,
               [NoClick EXCEPT !.showBackdrop = showBackdrop,
                               !.onBackdropClick = onBackdropClick,
                               !.closeOnClickOutside = closeOnClickOutside],
               BackdropOnClick(onBackdropClick, closeOnClickOutside))

\* The user activates the close button of Modal i, which is rendered while
\* the content is and showCloseButton is on.
CloseButtonClick(i, showCloseButton, onClickGiven) ==
    /\ isContentVisible[i]
    /\ showCloseButton
    /\ Clicked("closeButton", i,
               [NoClick EXCEPT !.showCloseButton = showCloseButton,
                               !.onClickGiven = onClickGiven],
               CloseButtonOnClick(onClickGiven))

Elements == Outside \cup UNION {Pool(i) : i \in Inst}

\* One FocusLock used on its own.
LockInst == {1}

NextLock ==
    \/ \E i \in LockInst :
          \E p \in LockProps(i), kids \in SUBSET Pool(i) : Mount(i, p, kids)
    \/ \E i \in LockInst : Unmount(i)
    \/ \E key \in Keys, shiftKey \in BOOLEAN : KeyDown(key, shiftKey, AllEsc)
    \/ \E i \in LockInst : \E e \in Pool(i) : Mutate(i, e)
    \/ \E e \in Elements \cup {Body} : UserFocus(e)

SpecLock == InitLock /\ [][NextLock]_vars

\* One FocusLock whose props change while it is mounted.
NextProps ==
    \/ \E i \in LockInst :
          \E p \in LockProps(i), kids \in SUBSET Pool(i) : Mount(i, p, kids)
    \/ \E i \in LockInst : \E p \in LockProps(i) : Rerender(i, p)
    \/ \E i \in LockInst : Unmount(i)
    \/ \E e \in Elements \cup {Body} : UserFocus(e)

SpecProps == InitLock /\ [][NextProps]_vars

\* The children a FocusLock of the pair is mounted around: its first n
\* slots.
PairKids(i) == {{El(i, k) : k \in 1..n} : n \in 0..MaxItems}

\* The props of a FocusLock of the pair: locked or not, nothing else given.
PairProps == {[DefaultProps EXCEPT !.isLocked = b] : b \in BOOLEAN}

\* Two FocusLocks mounted at the same time, each with its own listener on
\* the window.
NextPair ==
    \/ \E i \in Inst :
          \E p \in PairProps, kids \in PairKids(i) : Mount(i, p, kids)
    \/ \E i \in Inst : Unmount(i)
    \/ \E shiftKey \in BOOLEAN : KeyDown("Tab", shiftKey, AllEsc)
    \/ \E e \in Elements \cup {Body} : UserFocus(e)

SpecPair == InitLock /\ [][NextPair]_vars

\* Modals, each composing a FocusLock.
NextModal ==
    \/ \E i \in Inst :
          \E mp \in ModalFocusProps(i), kids \in ModalKids(i) :
              Open(i, mp, kids)
    \/ \E i \in Inst : Reopen(i)
    \/ \E i \in Inst : Close(i)
    \/ \E i \in Inst, fin \in {Undefined, Final} : TimerFire(i, fin)
    \/ \E closeOnEsc \in [Inst -> BOOLEAN] : KeyDown("Escape", FALSE, closeOnEsc)

SpecModal == InitModal /\ [][NextModal]_vars

-----------------------------------------------------------------------------
\* The triggers of onClose

\* The focus props at their defaults.
DefaultFocusProps ==
    [trapFocus |-> TRUE, autoFocus |-> TRUE, returnFocus |-> TRUE,
     initialFocusRef |-> Undefined]

NextTriggers ==
    \/ \E i \in Inst : \E kids \in ModalKids(i) : Open(i, DefaultFocusProps, kids)
    \/ \E i \in Inst : Reopen(i)
    \/ \E i \in Inst : Close(i)
    \/ \E i \in Inst : TimerFire(i, Undefined)
    \/ \E closeOnEsc \in [Inst -> BOOLEAN] : KeyDown("Escape", FALSE, closeOnEsc)
    \/ \E i \in Inst, showBackdrop, onBackdropClick, closeOnClickOutside \in BOOLEAN :
          BackdropClick(i, showBackdrop, onBackdropClick, closeOnClickOutside)
    \/ \E i \in Inst, showCloseButton, onClickGiven \in BOOLEAN :
          CloseButtonClick(i, showCloseButton, onClickGiven)

SpecTriggers == InitModal /\ [][NextTriggers]_vars

-----------------------------------------------------------------------------
\* Modals opened in one render pass, Modals unmounted by their parent

AllInst == [i \in Inst |-> TRUE]

\* The parent renders both Modals with isOpen = true in one pass, with the
\* default focus props: the commit attaches both portals, then the effects
\* run in tree order: the FocusLock of the first Modal, the first Modal, the
\* FocusLock of the second, the second.  Both scroll-lock effects find both
\* overlays attached.
OpenBoth(kids) ==
    /\ overlays = <<>>
    /\ \A i \in Inst : ~isOpen[i] /\ ~isContentVisible[i] /\ ~rootNode[i]
    /\ LET p == ModalLockProps(DefaultFocusProps)
           e1 == MountEffects(1, p, focus, AllInst, kids)
           e2 == MountEffects(2, p, e1.active, AllInst, kids)
           m1 == ScrollLockEffect(modalProps[1].lockScroll, TRUE, 2, noScroll)
           m2 == ScrollLockEffect(modalProps[2].lockScroll, TRUE, 2, m1)
       IN /\ rootNode' = AllInst
          /\ children' = kids
          /\ focusableItems' = <<e1.items, e2.items>>
          /\ returnFocusNode' = <<e1.returnFocusNode, e2.returnFocusNode>>
          /\ focus' = e2.active
          /\ focusBefore' = <<focus, e1.active>>
          /\ noScroll' = m2
    /\ props' = [i \in Inst |-> ModalLockProps(DefaultFocusProps)]
    /\ listeners' = <<1, 2>>
    /\ observers' = Inst
    /\ isOpen' = AllInst
    /\ isContentVisible' = AllInst
    /\ timer' = [i \in Inst |-> FALSE]
    /\ overlays' = <<1, 2>>
    /\ UNCHANGED <<modalProps, transitionDuration, elapsed>>
    /\ ev' = Ev("openBoth", 0, ModalLockProps(DefaultFocusProps), focus, NoRefs)

\* The parent stops rendering Modal i while its content is rendered: React
\* removes the portal's content and runs the cleanups: those of the
\* FocusLock, the pending timeout's; the scroll-lock effect has none.
UnmountModal(i) ==
    /\ isContentVisible[i]
    /\ isOpen' = [isOpen EXCEPT ![i] = FALSE]
    /\ isContentVisible' = [isContentVisible EXCEPT ![i] = FALSE]
    /\ timer' = [timer EXCEPT ![i] = FALSE]
    /\ overlays' = Remove(overlays, i)
    /\ LockUnmounted(i)
    /\ UNCHANGED <<modalProps, noScroll, transitionDuration, elapsed>>
    /\ ev' = Ev("unmountModal", i, props[i], focusBefore[i], NoRefs)

\* The contents two Modals are opened around.
BothKids ==
    {kids \in [Inst -> UNION {ModalKids(i) : i \in Inst}] :
        \A i \in Inst : kids[i] \in ModalKids(i)}

NextStack ==
    \/ \E i \in Inst : \E kids \in ModalKids(i) : Open(i, DefaultFocusProps, kids)
    \/ \E kids \in BothKids : OpenBoth(kids)
    \/ \E i \in Inst : Reopen(i)
    \/ \E i \in Inst : Close(i)
    \/ \E i \in Inst : TimerFire(i, Undefined)
    \/ \E i \in Inst : UnmountModal(i)

SpecStack == InitModal /\ [][NextStack]_vars

-----------------------------------------------------------------------------
\* The transition timeout in time

\* The page with closed Modals given the same transitionDuration prop.
InitTransition ==
    /\ focus = Trigger
    /\ rootNode = [i \in Inst |-> FALSE]
    /\ children = [i \in Inst |-> {}]
    /\ focusableItems = [i \in Inst |-> NoItems]
    /\ returnFocusNode = [i \in Inst |-> Null]
    /\ props = [i \in Inst |-> DefaultProps]
    /\ listeners = <<>>
    /\ observers = {}
    /\ focusBefore = [i \in Inst |-> Body]
    /\ isOpen = [i \in Inst |-> FALSE]
    /\ isContentVisible = [i \in Inst |-> FALSE]
    /\ timer = [i \in Inst |-> FALSE]
    /\ modalProps = [i \in Inst |-> [lockScroll |-> TRUE, target |-> "body"]]
    /\ overlays = <<>>
    /\ noScroll = FALSE
    /\ transitionDuration \in {[i \in Inst |-> d] : d \in Durations}
    /\ elapsed = [i \in Inst |-> 0]
    /\ ev = Ev("init", 0, DefaultProps, Body, NoRefs)

\* Time passes by one tick; a timeout that is due fires before more passes.
Tick ==
    /\ \E i \in Inst : timer[i]
    /\ \A i \in Inst : timer[i] => elapsed[i] < TRANSITION_DURATION
    /\ elapsed' = [i \in Inst |->
                      IF timer[i] THEN elapsed[i] + TickLength ELSE elapsed[i]]
    /\ UNCHANGED <<focus, lockVars, isOpen, isContentVisible, timer,
                   modalProps, overlays, noScroll, transitionDuration>>
    /\ ev' = Ev("tick", 0, DefaultProps, Body, NoRefs)

\* The timeout useMountTransition set with the delay Modal gave it fires
\* when that delay has passed.
Timeout(i) ==
    /\ elapsed[i] = TRANSITION_DURATION
    /\ TimerFire(i, Undefined)

\* One Modal is opened and closed.
NextTransition ==
    \/ \E i \in LockInst :
          \E mp \in ModalFocusProps(i), kids \in ModalKids(i) :
              Open(i, mp, kids)
    \/ \E i \in Inst : Reopen(i)
    \/ \E i \in Inst : Close(i)
    \/ Tick
    \/ \E i \in Inst : Timeout(i)

SpecTransition == InitTransition /\ [][NextTransition]_vars

-----
\* Properties of the FocusLock keydown listener

TabEvent == ev.op = "key" /\ ev.key = "Tab"

\* The listener of i was registered and i is locked.
Locked(i) == rootNode[i] /\ props[i].isLocked

Items(i) == focusableItems[i].list
Size(i) == Len(Items(i))

\* The cached list is what a query of the container returns now.
Current(i) == focusableItems[i] = QueryFocusable(children[i])

\* C1: with N >= 2 items and the lock on, Tab on the last item prevents the
\* default action and focuses the first item, Shift+Tab on the first item
\* prevents it and focuses the last item.  The listener's calls are stated
\* for every list; the resulting activeElement for a target that is in the
\* document, as the members of a FocusableSet are (focus() on a detached
\* node does nothing).
C1_TabWrapAround ==
    \A i \in Inst :
        (TabEvent /\ Locked(i) /\ Size(i) >= 2) =>
            /\ (~ev.shiftKey /\ ev.before = Items(i)[Size(i)]) =>
                   /\ ev.res[i] = WrapTo(Items(i)[1])
                   /\ ev.defaultPrevented
                   /\ Attached(Items(i)[1]) => focus = Items(i)[1]
            /\ (ev.shiftKey /\ ev.before = Items(i)[1]) =>
                   /\ ev.res[i] = WrapTo(Items(i)[Size(i)])
                   /\ ev.defaultPrevented
                   /\ Attached(Items(i)[Size(i)]) => focus = Items(i)[Size(i)]

C1_Witness ==
    \E i \in Inst :
        /\ TabEvent /\ Locked(i) /\ Size(i) = 3
        /\ ~ev.shiftKey /\ ev.before = Items(i)[3] /\ focus = Items(i)[1]

\* C2: while the lock is on and its list is non-empty and is the
\* FocusableSet of the container (what a query of the container returns), a
\* Tab or Shift+Tab pressed with focus on a member leaves focus on a member:
\* by induction, so does every sequence of them.
C2_FocusContained ==
    \A i \in Inst :
        (TabEvent /\ Locked(i) /\ Current(i) /\ Size(i) > 0
           /\ ev.before \in Range(Items(i)))
        => focus \in Range(Items(i))

C2_Witness ==
    \E i \in Inst :
        /\ TabEvent /\ Locked(i) /\ Current(i) /\ Size(i) = 3
        /\ ev.before = Items(i)[1] /\ focus = Items(i)[2]
        /\ ~ev.defaultPrevented

\* C3: with exactly one item and the lock on, every Tab keydown has its
\* default action prevented, with or without shift and wherever focus is,
\* and the listener focuses nothing: focus stays where it was.
C3_SingleItemPrevents ==
    \A i \in Inst :
        (TabEvent /\ Locked(i) /\ Size(i) = 1) =>
            /\ ev.res[i] = [NoCall EXCEPT !.preventDefault = TRUE]
            /\ ev.defaultPrevented
            /\ focus = ev.before

C3_Witness ==
    \E i \in Inst :
        /\ TabEvent /\ Locked(i) /\ Size(i) = 1
        /\ ev.shiftKey /\ ev.before = Trigger /\ ev.defaultPrevented

\* C4: with no item and the lock on, a Tab keydown is never prevented by
\* the listener, which focuses nothing and does not throw, whatever holds
\* focus; with no other listener the event's default action is not
\* prevented.
C4_EmptyNoOp ==
    \A i \in Inst :
        (TabEvent /\ Locked(i) /\ focusableItems[i].set /\ Size(i) = 0) =>
            /\ ev.res[i] = NoCall
            /\ listeners = <<i>> => ~ev.defaultPrevented

C4_Witness ==
    \E i \in Inst :
        /\ TabEvent /\ Locked(i) /\ focusableItems[i].set /\ Size(i) = 0
        /\ ev.before = Body /\ ~ev.defaultPrevented /\ focus # Body

\* C5: when isLocked is false or the key is not Tab, the listener does
\* nothing: no preventDefault, no focus call; and a key other than Tab
\* leaves focus where it was.
C5_UnlockedOrOtherKey ==
    \A i \in Inst :
        (ev.op = "key" /\ rootNode[i] /\ (~props[i].isLocked \/ ev.key # "Tab"))
        => /\ ev.res[i] = NoCall
           /\ ev.key # "Tab" => focus = ev.before

C5_Witness ==
    \E i \in Inst :
        /\ TabEvent /\ rootNode[i] /\ ~props[i].isLocked /\ Size(i) = 1
        /\ ev.before = Items(i)[1] /\ ~ev.defaultPrevented /\ focus = Final

\* C12: once a FocusLock is unmounted its keydown listener is off the window
\* and its MutationObserver is disconnected (no mutation is delivered to
\* it): a later keydown calls nothing of that instance, its list of items is
\* gone with it, and with no FocusLock mounted a Tab keydown is not
\* prevented and moves focus as the browser does.
C12_UnmountReleases ==
    \A i \in Inst :
        ~rootNode[i] =>
            /\ i \notin Range(listeners)
            /\ i \notin observers
            /\ focusableItems[i] = NoItems
            /\ ev.op = "key" => ev.res[i] = NoCall
            /\ (TabEvent /\ listeners = <<>>) =>
                   /\ ~ev.defaultPrevented
                   /\ focus = TabDefault(ev.before, ev.shiftKey)

C12_Witness ==
    \E i \in Inst :
        /\ ev.op = "unmount" /\ ev.inst = i /\ ev.props.isLocked
        /\ ~rootNode[i] /\ listeners = <<>> /\ observers = {}

\* C19: after every step (the mutation callbacks it caused delivered), the
\* list of a mounted FocusLock holds only elements that are now in the
\* document under its root, wherever in the subtree elements were inserted
\* or removed.
C19_OnlyAttachedItems ==
    \A i \in Inst : rootNode[i] => Range(Items(i)) \subseteq children[i]

\* What a Tab keydown does when the FocusLock i is the only one mounted and
\* focus is on one of its items: whether the default action is prevented
\* and where focus is afterwards.
Alone(i, shiftKey, active) ==
    LET r == handleKeyPress(focusableItems[i], props[i].isLocked, "Tab",
                            shiftKey, active)
        k == IndexOf(Items(i), active)
    IN [defaultPrevented |-> r.preventDefault,
        focus |-> IF r.focus # Undefined THEN r.focus
                  ELSE IF r.preventDefault THEN active
                  ELSE Items(i)[IF shiftKey THEN k - 1 ELSE k + 1]]

\* C20: with two locked FocusLocks mounted, a Tab keydown while focus is on
\* an item of one of them has the outcome it would have with the other one
\* not mounted (default action prevented or not, focus moved or not),
\* whatever the number of items of the other, one included.
C20_InstancesIndependent ==
    \A i \in Inst :
        (TabEvent /\ (\A j \in Inst : Locked(j)) /\ Current(i)
           /\ ev.before \in Range(Items(i)))
        => /\ ev.defaultPrevented = Alone(i, ev.shiftKey, ev.before).defaultPrevented
           /\ focus = Alone(i, ev.shiftKey, ev.before).focus

-----------------------------------------------------------------------------
\* Properties of the FocusLock autofocus / return-focus effect

\* C6: an unmount with returnFocusOnClose and no finalFocusRef puts focus
\* back on the element that held it just before the mount, whatever
\* autoFocusOnMount is.
C6_ReturnFocus ==
    \A i \in Inst :
        (ev.op = "unmount" /\ ev.inst = i /\ ev.props.returnFocusOnClose
           /\ ev.props.finalFocusRef = Undefined /\ ev.before # Body)
        => focus = ev.before

\* C7: a mount with autoFocusOnMount and no initialFocusRef finds the
\* focusable items already queried from the container and focuses item 0,
\* or leaves focus alone when there is none.
C7_AutoFocusFirstItem ==
    \A i \in Inst :
        (ev.op = "mount" /\ ev.inst = i /\ ev.props.autoFocusOnMount
           /\ ev.props.initialFocusRef = Undefined)
        => /\ Current(i)
           /\ focus = IF Size(i) > 0 THEN Items(i)[1] ELSE ev.before

C7_Witness ==
    \E i \in Inst :
        /\ ev.op = "mount" /\ ev.inst = i /\ ev.props.autoFocusOnMount
        /\ ev.props.initialFocusRef = Undefined
        /\ Size(i) = 2 /\ ev.before = Trigger /\ focus = Items(i)[1]

\* C17: a mount with autoFocusOnMount and an initialFocusRef that holds no
\* element (its target is not rendered) focuses the first focusable item of
\* the container, or leaves focus alone when there is none.
C17_MissingInitialFallsBack ==
    \A i \in Inst :
        (ev.op = "mount" /\ ev.inst = i /\ ev.props.autoFocusOnMount
           /\ ev.props.initialFocusRef # Undefined
           /\ ~Attached(ev.props.initialFocusRef))
        => focus = IF Size(i) > 0 THEN Items(i)[1] ELSE ev.before

\* C18: while a FocusLock that has captured a return-focus target stays
\* mounted, a render with other autoFocusOnMount, returnFocusOnClose,
\* initialFocusRef or finalFocusRef props neither replaces the captured
\* target nor moves focus.
C18_CapturedOnce ==
    [][\A i \in Inst :
          (ev'.op = "render" /\ ev'.inst = i /\ returnFocusNode[i] # Null)
          => (returnFocusNode'[i] = returnFocusNode[i] /\ focus' = focus)]_vars

-----------------------------------------------------------------------------
\* Properties of the Modal

\* C8: with two Modals attached, an Escape keydown calls onClose of the
\* last-attached one and of no other, whatever their portal targets.
C8_EscapeClosesLastMounted ==
    (ev.op = "key" /\ ev.key = "Escape" /\ Len(overlays) = 2
       /\ \A i \in Inst : ev.closeOnEsc[i])
    => ev.calls = <<overlays[2]>>

\* C9: with lockScroll on both Modals, opened one after the other and
\* closed in any order, the body carries the no-scroll class exactly while
\* at least one of them is attached: not before the first is, not after the
\* last one is removed.
C9_ScrollLockWhileAttached ==
    (\A i \in Inst : modalProps[i].lockScroll)
    => (noScroll <=> overlays # <<>>)

C9_Witness ==
    /\ \A i \in Inst : modalProps[i].lockScroll
    /\ ev.op = "detach" /\ Len(overlays) = 1 /\ ev.inst = 1 /\ noScroll

\* C10: a Modal opened with initialFocusRef (autoFocus on) has focus on that
\* element, and a Modal removed with finalFocusRef (returnFocus on) leaves
\* focus on that element.
C10_ModalPassesFocusRefs ==
    /\ (ev.op = "open" /\ ev.props.autoFocusOnMount
          /\ ev.refs.initialFocusRef # Undefined
          /\ Attached(ev.refs.initialFocusRef))
       => focus = ev.refs.initialFocusRef
    /\ (ev.op = "detach" /\ ev.props.returnFocusOnClose
          /\ ev.refs.finalFocusRef # Undefined)
       => focus = ev.refs.finalFocusRef

-----------------------------------------------------------------------------
\* Properties of the Modal's transition

\* The transition duration a Modal is configured with.
Configured(i) ==
    IF transitionDuration[i] = Undefined THEN TRANSITION_DURATION
    ELSE transitionDuration[i]

\* C11: the content of a Modal detaches when the configured transition
\* duration (the transitionDuration prop, 200 when not given, 0 for no
\* delay) has passed since isOpen became false, not earlier and not later.
C11_ConfiguredDuration ==
    \A i \in Inst :
        (ev.op = "detach" /\ ev.inst = i) => elapsed[i] = Configured(i)

-----------------------------------------------------------------------------
\* Properties of the Modal's close callback

Count(log, name) == Len(SelectSeq(log, LAMBDA x : x = name))

\* C13: onClose of a Modal is called only by an Escape keydown while its
\* closeOnEsc is on and it is the last entry of the overlay query, by a click
\* on its backdrop while closeOnClickOutside is on, or by its close button;
\* no other step calls it, and an Escape or a backdrop click whose flag is
\* off calls none.
C13_OnCloseOnlyByTriggers ==
    /\ \A i \in Inst :
           i \in Range(ev.calls) =>
               \/ /\ ev.op = "key" /\ ev.key = "Escape" /\ ev.closeOnEsc[i]
                  /\ getOverlayElements # <<>>
                  /\ getOverlayElements[Len(getOverlayElements)] = i
               \/ /\ ev.op = "backdrop" /\ ev.inst = i
                  /\ ev.click.showBackdrop /\ ev.click.closeOnClickOutside
               \/ ev.op = "closeButton" /\ ev.inst = i /\ ev.click.showCloseButton
    /\ Count(ev.log, "onClose") = Len(ev.calls)
    /\ (ev.op = "backdrop" /\ ~ev.click.closeOnClickOutside) => ev.calls = <<>>

C13_Witness ==
    /\ ev.op = "key" /\ ev.key = "Escape" /\ Len(overlays) = 2
    /\ ev.closeOnEsc = AllEsc
    /\ Len(ev.calls) = 1 /\ \E i \in Inst : isOpen[i] /\ i \notin Range(ev.calls)

\* C14: a click on the backdrop calls onBackdropClick, when it is given,
\* first and once; with closeOnClickOutside on it then calls onClose, once
\* and last; with closeOnClickOutside off it does not call onClose.
C14_BackdropClickOrder ==
    ev.op = "backdrop" =>
        /\ Count(ev.log, "onBackdropClick")
               = (IF ev.click.onBackdropClick THEN 1 ELSE 0)
        /\ Count(ev.log, "onClose")
               = (IF ev.click.closeOnClickOutside THEN 1 ELSE 0)
        /\ ev.click.onBackdropClick => ev.log[1] = "onBackdropClick"
        /\ ev.click.closeOnClickOutside => ev.log[Len(ev.log)] = "onClose"
        /\ Len(ev.log) <= 2

C14_Witness ==
    /\ ev.op = "backdrop" /\ ev.click.onBackdropClick
    /\ ev.click.closeOnClickOutside
    /\ ev.log = <<"onBackdropClick", "onClose">>
    /\ ~isOpen[ev.inst] /\ timer[ev.inst]

-----------------------------------------------------------------------------
\* Properties of the scroll lock

\* C15: after every step (its effects run), the body carries the no-scroll
\* class whenever the content of a Modal with lockScroll is rendered,
\* however many Modals there are, whether they were opened one by one or in
\* one render pass, and whatever lockScroll the others have.
C15_ScrollLockShared ==
    (\E i \in Inst : isContentVisible[i] /\ modalProps[i].lockScroll)
    => noScroll

\* C16: whenever no Modal overlay is attached the body does not carry the
\* no-scroll class: after a close and its transition, after the parent
\* unmounted an open Modal, and when the last overlay to go had lockScroll
\* off.
C16_MarkerRemovedAtZero ==
    overlays = <<>> => ~noScroll

=============================================================================
